---- MODULE Spec2Model ----
(***************************************************************************)
(* Face login / face enrollment acquisition sessions of naxrel/crypto.     *)
(*                                                                         *)
(* One behaviour of the model is one session: a dialog (FaceLoginDialog or *)
(* FaceCaptureDialog) has started its worker (FaceLoginWorker or           *)
(* FaceRegisterWorker) on a second thread; the worker runs run() while the *)
(* user may close the dialog (closeEvent -> worker.stop(), thread.wait()). *)
(* Signals of the worker that are connected to slots of the dialog are     *)
(* queued to the GUI thread and delivered in order.                        *)
(*                                                                         *)
(* Time of a login session is counted in seconds since start_time; one     *)
(* pass of the acquisition loop (read, detect, emit, sleep) lasts between  *)
(* 1 and MaxFramePeriod seconds.                                           *)
(***************************************************************************)
EXTENDS Integers, Sequences, FiniteSets, TLC

\* ---------------------------------------------------------------- bounds
\* longest pass of the acquisition loop, in seconds
MaxFramePeriod == 2
\* largest images_to_capture a session is run with (the worker sets 50)
MaxTarget == 3

\* ------------------------------------------------------ program constants
\* "while time.time() - start_time < 10.0"
TIMEOUT == 10
\* CAMERA_INDEX_TO_USE
camera_index == 1

CASCADE_PATH == "assets/haarcascade_frontalface_default.xml"

\* Python's None, as a value handed to Signal.emit
PyNone == "<None>"

\* ------------------------------------------------------ message texts
LoginCancelMsg == "Login canceled by user."
NoFaceMsg == "No face detected. Please try again."
EncodeFailMsg == "Failed to encode image."
CaptureCancelMsg == "Capture canceled by user."
RegisteredMsg == "Face registered successfully! Training started."
UnknownError == "Unknown error"

CascadeMissingMsg == "Haar cascade not found at " \o CASCADE_PATH
CannotOpenMsg == "Cannot open webcam at index " \o ToString(camera_index) \o "."
CaptureFailedMsg(n) == "Capture failed. Only got " \o ToString(n) \o " images."

\* texts of exceptions raised by the libraries (str(e) of a representative)
JsonDecodeMsg == "Expecting value: line 1 column 1 (char 0)"
NotADictMsg == "'list' object has no attribute 'get'"
TransportMsg == "HTTPSConnectionPool: Max retries exceeded"
CvErrorMsg == "OpenCV: cv2.error"

\* the except clause without its prefix: emit(f"{e}")
ErrorText_NoPrefix(e) == e

\* f"Error: {e}" of the except clauses
ErrorText(e) == "Error: " \o e

\* the enrollment worker reporting the server's message verbatim
ServerErrorText_Verbatim(m) == m

\* f"Server error: {...}" of the enrollment worker
ServerErrorText(m) == "Server error: " \o m

\* f"image_{i}.jpg"
EntryName(i) == "image_" \o ToString(i) \o ".jpg"

\* ------------------------------------------------------ HTTP responses
Absent == "<absent>"

\* A response: its status code and its body. kind "notjson": response.json()
\* raises; "array": JSON that is no object; "object": a JSON object whose
\* fields are a value or Absent.
Responses ==
  [status : {200, 500}, kind : {"notjson", "array"},
   success : {Absent}, username : {Absent}, message : {Absent}]
  \cup
  [status : {200, 500}, kind : {"object"},
   success : {Absent, "true", "false"},
   username : {Absent, "alice"},
   message : {Absent, "no match"}]

NoResponse ==
  [status |-> 0, kind |-> "none", success |-> Absent, username |-> Absent,
   message |-> Absent]

\* result.get(key): None when the key is missing
Get(result, key) ==
  LET v == CASE key = "success" -> result.success
             [] key = "username" -> result.username
             [] OTHER -> result.message
  IN IF v = Absent THEN PyNone ELSE v

\* result.get(key) where result.get(key, default) was meant
GetDefault_NoDefault(result, key, default) == Get(result, key)

\* result.get(key, default)
GetDefault(result, key, default) ==
  IF Get(result, key) = PyNone THEN default ELSE Get(result, key)

\* truth value of result.get("success")
Truthy(v) == v = "true"

\* "response.status_code == 200 and result.get('success')"
LoginAccepted(response) ==
  response.status = 200 /\ Truthy(Get(response, "success"))

\* "response.status_code == 200" of the enrollment worker
RegisterAccepted(response) == response.status = 200

\* ------------------------------------------------------ loop conditions
\* the login loop without the test of _is_running
LoginLoopCond_NoRunning(t, running) == t < TIMEOUT

\* the login loop without the test of the elapsed time
LoginLoopCond_NoTimeout(t, running) == running

\* "while time.time() - start_time < 10.0 and self._is_running"
LoginLoopCond(t, running) == t < TIMEOUT /\ running

\* the enrollment loop with <= for <
RegisterLoopCond_OffByOne(c, n, running) == c <= n /\ running

\* "while count < self.images_to_capture and self._is_running"
RegisterLoopCond(c, n, running) == c < n /\ running

VARIABLES
  flow,              \* "login" (FaceLoginWorker) or "register" (FaceRegisterWorker)
  pc,                \* position of run()
  is_running,        \* worker._is_running
  cap,               \* "unbound" (no local cap), "open", "closed"
  elapsed,           \* time.time() - start_time, seconds (login)
  captured_frame,    \* "None" or "frame" (login)
  image_list,        \* enrollment samples; each: does cv2.imencode succeed on it
  count,             \* enrollment counter
  images_to_capture, \* enrollment target
  exc,               \* str(e) of the exception being raised
  response,          \* the response of requests.post
  archive,           \* names written to the zip, in order
  uploads,           \* requests.post calls made
  emitted,           \* terminal signals emitted by the worker, in order
  finishedEmits,     \* emissions of FaceLoginWorker.finished
  nDelivered,        \* terminal signals already delivered to the dialog's slots
  dlg,               \* "shown", "closing" (in closeEvent, joining), "closed"
  boxes,             \* message boxes shown by the dialog
  surfaced,          \* signals emitted by the dialog to its page
  stopAt,            \* pc at which stop() was called, "none" if never
  readsAfterStop,    \* cap.read() calls made after stop()
  faceEver,          \* a face was detected in some frame
  timedOut,          \* the login loop ended with elapsed >= TIMEOUT
  openFailed,        \* cap.isOpened() was false after VideoCapture(...)
  readFailed,        \* a cap.read() returned ret = False
  lateRead,          \* a cap.read() was made after an open or read failure
  badRelease,        \* cap.release() was called on a camera that was not open
  previewAfterTerminal \* a preview/status/progress signal followed the terminal one

workerVars ==
  <<flow, pc, cap, elapsed, captured_frame, image_list, count,
    images_to_capture, exc, response, archive, uploads, emitted,
    finishedEmits, readsAfterStop, faceEver, timedOut, openFailed,
    readFailed, lateRead, badRelease, previewAfterTerminal>>
dialogVars == <<nDelivered, dlg, boxes, surfaced>>
vars == <<workerVars, dialogVars, is_running, stopAt>>

Signal(sig, ok, arg) == [sig |-> sig, ok |-> ok, arg |-> arg]

\* the worker emits a preview, status or progress signal (frame_updated,
\* status_updated, progress_frame, progress_value)
EmitPreview == previewAfterTerminal' = (previewAfterTerminal \/ emitted # <<>>)

\* cap.read() is called
ReadFrame(ret) ==
  /\ readFailed' = (readFailed \/ ~ret)
  /\ lateRead' = (lateRead \/ readFailed \/ openFailed)

\* cap.release() is called
ReleaseCamera ==
  /\ cap' = "closed"
  /\ badRelease' = (badRelease \/ cap # "open")

Init ==
  /\ flow \in {"login", "register"}
  /\ pc = "start"
  /\ is_running = TRUE
  /\ cap = "unbound"
  /\ elapsed = 0
  /\ captured_frame = "None"
  /\ image_list = <<>>
  /\ count = 0
  /\ images_to_capture \in (IF flow = "register" THEN 1..MaxTarget ELSE {0})
  /\ exc = ""
  /\ response = NoResponse
  /\ archive = <<>>
  /\ uploads = 0
  /\ emitted = <<>>
  /\ finishedEmits = 0
  /\ nDelivered = 0
  /\ dlg = "shown"
  /\ boxes = <<>>
  /\ surfaced = <<>>
  /\ stopAt = "none"
  /\ readsAfterStop = 0
  /\ faceEver = FALSE
  /\ timedOut = FALSE
  /\ openFailed = FALSE
  /\ readFailed = FALSE
  /\ lateRead = FALSE
  /\ badRelease = FALSE
  /\ previewAfterTerminal = FALSE

\* ------------------------------------------------------ FaceLoginWorker.run
\* lines 50-60: the detector file, the camera, start_time
Login_Start ==
  /\ flow = "login" /\ pc = "start"
  /\ \E cascadeExists \in BOOLEAN, opened \in BOOLEAN :
       IF ~cascadeExists
         THEN /\ exc' = CascadeMissingMsg
              /\ UNCHANGED openFailed
              /\ pc' = "except"
              /\ UNCHANGED cap
         ELSE IF ~opened
           THEN /\ cap' = "closed"
                /\ openFailed' = TRUE
                /\ exc' = CannotOpenMsg
                /\ pc' = "except"
           ELSE /\ cap' = "open"
                /\ UNCHANGED openFailed
                /\ pc' = "looptest"
                /\ UNCHANGED exc
  /\ elapsed' = 0
  /\ UNCHANGED <<flow, captured_frame, image_list, count, images_to_capture,
                 response, archive, uploads, emitted, finishedEmits,
                 readsAfterStop, faceEver, timedOut>>
  /\ UNCHANGED <<dialogVars, is_running, stopAt>>
  /\ UNCHANGED <<readFailed, lateRead, badRelease, previewAfterTerminal>>

\* line 63: the loop condition
Login_LoopTest ==
  /\ flow = "login" /\ pc = "looptest"
  /\ IF LoginLoopCond(elapsed, is_running)
       THEN pc' = "body" /\ UNCHANGED timedOut
       ELSE pc' = "release" /\ timedOut' = (elapsed >= TIMEOUT)
  /\ UNCHANGED <<flow, cap, elapsed, captured_frame, image_list, count,
                 images_to_capture, exc, response, archive, uploads, emitted,
                 finishedEmits, readsAfterStop, faceEver>>
  /\ UNCHANGED <<dialogVars, is_running, stopAt>>
  /\ UNCHANGED <<openFailed, readFailed, lateRead, badRelease, previewAfterTerminal>>

\* one pass of the loop where a failed read is followed by the next pass
\* (continue for break)
Login_Body_RetryRead ==
  /\ flow = "login" /\ pc = "body"
  /\ \E ret \in BOOLEAN, face \in BOOLEAN, cvError \in BOOLEAN,
        d \in 1..MaxFramePeriod :
       /\ elapsed' = elapsed + d
       /\ readsAfterStop' = IF is_running THEN readsAfterStop
                                          ELSE readsAfterStop + 1
       /\ ReadFrame(ret)
       /\ IF ~ret
            THEN /\ pc' = "looptest"
                 /\ UNCHANGED <<exc, captured_frame, faceEver, previewAfterTerminal>>
            ELSE IF cvError
              THEN /\ exc' = CvErrorMsg
                   /\ pc' = "except"
                   /\ UNCHANGED <<captured_frame, faceEver, previewAfterTerminal>>
              ELSE IF face
                THEN /\ captured_frame' = "frame"
                     /\ faceEver' = TRUE
                     /\ EmitPreview
                     /\ pc' = "release"
                     /\ UNCHANGED exc
                ELSE /\ EmitPreview
                     /\ pc' = "looptest"
                     /\ UNCHANGED <<exc, captured_frame, faceEver>>
  /\ UNCHANGED <<flow, cap, image_list, count, images_to_capture, response,
                 archive, uploads, emitted, finishedEmits, timedOut>>
  /\ UNCHANGED <<dialogVars, is_running, stopAt>>
  /\ UNCHANGED <<openFailed, badRelease>>

\* lines 64-97: one pass of the loop. ret: the read succeeded; face: the
\* detector reported a face; cvError: an OpenCV call of the pass raised;
\* d: the time the pass took.
Login_Body ==
  /\ flow = "login" /\ pc = "body"
  /\ \E ret \in BOOLEAN, face \in BOOLEAN, cvError \in BOOLEAN,
        d \in 1..MaxFramePeriod :
       /\ elapsed' = elapsed + d
       /\ readsAfterStop' = IF is_running THEN readsAfterStop
                                          ELSE readsAfterStop + 1
       /\ ReadFrame(ret)
       /\ IF ~ret
            THEN /\ pc' = "release"
                 /\ UNCHANGED <<exc, captured_frame, faceEver, previewAfterTerminal>>
            ELSE IF cvError
              THEN /\ exc' = CvErrorMsg
                   /\ pc' = "except"
                   /\ UNCHANGED <<captured_frame, faceEver, previewAfterTerminal>>
              ELSE IF face
                THEN /\ captured_frame' = "frame"
                     /\ faceEver' = TRUE
                     /\ EmitPreview
                     /\ pc' = "release"
                     /\ UNCHANGED exc
                ELSE /\ EmitPreview
                     /\ pc' = "looptest"
                     /\ UNCHANGED <<exc, captured_frame, faceEver>>
  /\ UNCHANGED <<flow, cap, image_list, count, images_to_capture, response,
                 archive, uploads, emitted, finishedEmits, timedOut>>
  /\ UNCHANGED <<dialogVars, is_running, stopAt>>
  /\ UNCHANGED <<openFailed, badRelease>>

\* line 99: cap.release() after the loop
Login_Release ==
  /\ flow = "login" /\ pc = "release"
  /\ ReleaseCamera
  /\ pc' = "check"
  /\ UNCHANGED <<flow, elapsed, captured_frame, image_list, count,
                 images_to_capture, exc, response, archive, uploads, emitted,
                 finishedEmits, readsAfterStop, faceEver, timedOut>>
  /\ UNCHANGED <<dialogVars, is_running, stopAt>>
  /\ UNCHANGED <<openFailed, readFailed, lateRead, previewAfterTerminal>>

\* the cancellation branch without its return: after the emit, run() goes on
\* to the no-face check
Login_Check_NoReturn ==
  /\ flow = "login" /\ pc = "check"
  /\ IF ~is_running
       THEN /\ emitted' = Append(emitted, Signal("login_failed", FALSE, LoginCancelMsg))
            /\ finishedEmits' = finishedEmits + 1
       ELSE UNCHANGED <<emitted, finishedEmits>>
  /\ IF captured_frame = "None"
       THEN exc' = NoFaceMsg /\ pc' = "except"
       ELSE pc' = "encode" /\ UNCHANGED exc
  /\ UNCHANGED <<flow, cap, elapsed, captured_frame, image_list, count,
                 images_to_capture, response, archive, uploads,
                 readsAfterStop, faceEver, timedOut>>
  /\ UNCHANGED <<dialogVars, is_running, stopAt>>
  /\ UNCHANGED <<openFailed, readFailed, lateRead, badRelease, previewAfterTerminal>>

\* lines 101-107: the cancellation check and the no-face check
Login_Check ==
  /\ flow = "login" /\ pc = "check"
  /\ IF ~is_running
       THEN /\ emitted' = Append(emitted, Signal("login_failed", FALSE, LoginCancelMsg))
            /\ finishedEmits' = finishedEmits + 1
            /\ pc' = "finally"
            /\ UNCHANGED exc
       ELSE IF captured_frame = "None"
         THEN /\ exc' = NoFaceMsg
              /\ pc' = "except"
              /\ UNCHANGED <<emitted, finishedEmits>>
         ELSE /\ pc' = "encode"
              /\ UNCHANGED <<exc, emitted, finishedEmits>>
  /\ UNCHANGED <<flow, cap, elapsed, captured_frame, image_list, count,
                 images_to_capture, response, archive, uploads,
                 readsAfterStop, faceEver, timedOut>>
  /\ UNCHANGED <<dialogVars, is_running, stopAt>>
  /\ UNCHANGED <<openFailed, readFailed, lateRead, badRelease, previewAfterTerminal>>

\* lines 110-115: cv2.imencode of the captured frame
Login_Encode ==
  /\ flow = "login" /\ pc = "encode"
  /\ \E is_success \in BOOLEAN :
       IF ~is_success
         THEN exc' = EncodeFailMsg /\ pc' = "except"
         ELSE pc' = "post" /\ UNCHANGED exc
  /\ UNCHANGED <<flow, cap, elapsed, captured_frame, image_list, count,
                 images_to_capture, response, archive, uploads, emitted,
                 finishedEmits, readsAfterStop, faceEver, timedOut>>
  /\ EmitPreview
  /\ UNCHANGED <<dialogVars, is_running, stopAt>>
  /\ UNCHANGED <<openFailed, readFailed, lateRead, badRelease>>

\* requests.post tried again when it raises
Login_Post_RetryOnError ==
  /\ flow = "login" /\ pc = "post"
  /\ uploads' = uploads + 1
  /\ \E transportError \in BOOLEAN, r \in Responses :
       IF transportError
         THEN pc' = "post" /\ UNCHANGED <<exc, response>>
         ELSE response' = r /\ pc' = "respond" /\ UNCHANGED exc
  /\ UNCHANGED <<flow, cap, elapsed, captured_frame, image_list, count,
                 images_to_capture, archive, emitted, finishedEmits,
                 readsAfterStop, faceEver, timedOut>>
  /\ UNCHANGED <<dialogVars, is_running, stopAt>>
  /\ UNCHANGED <<openFailed, readFailed, lateRead, badRelease, previewAfterTerminal>>

\* lines 117-118: requests.post; it returns a response or raises
Login_Post ==
  /\ flow = "login" /\ pc = "post"
  /\ uploads' = uploads + 1
  /\ \E transportError \in BOOLEAN, r \in Responses :
       IF transportError
         THEN exc' = TransportMsg /\ pc' = "except" /\ UNCHANGED response
         ELSE response' = r /\ pc' = "respond" /\ UNCHANGED exc
  /\ UNCHANGED <<flow, cap, elapsed, captured_frame, image_list, count,
                 images_to_capture, archive, emitted, finishedEmits,
                 readsAfterStop, faceEver, timedOut>>
  /\ UNCHANGED <<dialogVars, is_running, stopAt>>
  /\ UNCHANGED <<openFailed, readFailed, lateRead, badRelease, previewAfterTerminal>>

\* lines 120-124: response.json() and the verdict
Login_Respond ==
  /\ flow = "login" /\ pc = "respond"
  /\ IF response.kind = "notjson"
       THEN exc' = JsonDecodeMsg /\ pc' = "except" /\ UNCHANGED emitted
       ELSE IF response.kind = "array"
         THEN exc' = NotADictMsg /\ pc' = "except" /\ UNCHANGED emitted
         ELSE /\ emitted' = Append(emitted,
                   IF LoginAccepted(response)
                     THEN Signal("login_success", TRUE, Get(response, "username"))
                     ELSE Signal("login_failed", FALSE,
                                 GetDefault(response, "message", UnknownError)))
              /\ pc' = "finally"
              /\ UNCHANGED exc
  /\ UNCHANGED <<flow, cap, elapsed, captured_frame, image_list, count,
                 images_to_capture, response, archive, uploads,
                 finishedEmits, readsAfterStop, faceEver, timedOut>>
  /\ UNCHANGED <<dialogVars, is_running, stopAt>>
  /\ UNCHANGED <<openFailed, readFailed, lateRead, badRelease, previewAfterTerminal>>

\* lines 126-127: except Exception as e
Login_Except ==
  /\ flow = "login" /\ pc = "except"
  /\ emitted' = Append(emitted, Signal("login_failed", FALSE, ErrorText(exc)))
  /\ pc' = "finally"
  /\ UNCHANGED <<flow, cap, elapsed, captured_frame, image_list, count,
                 images_to_capture, exc, response, archive, uploads,
                 finishedEmits, readsAfterStop, faceEver, timedOut>>
  /\ UNCHANGED <<dialogVars, is_running, stopAt>>
  /\ UNCHANGED <<openFailed, readFailed, lateRead, badRelease, previewAfterTerminal>>

\* the finally block without its cap.release()
Login_Finally_NoRelease ==
  /\ flow = "login" /\ pc = "finally"
  /\ finishedEmits' = finishedEmits + 1
  /\ pc' = "done"
  /\ UNCHANGED <<flow, cap, elapsed, captured_frame, image_list, count,
                 images_to_capture, exc, response, archive, uploads, emitted,
                 readsAfterStop, faceEver, timedOut>>
  /\ UNCHANGED <<dialogVars, is_running, stopAt>>
  /\ UNCHANGED <<openFailed, readFailed, lateRead, badRelease, previewAfterTerminal>>

\* lines 128-131: finally
Login_Finally ==
  /\ flow = "login" /\ pc = "finally"
  /\ IF cap = "open" THEN ReleaseCamera ELSE UNCHANGED <<cap, badRelease>>
  /\ finishedEmits' = finishedEmits + 1
  /\ pc' = "done"
  /\ UNCHANGED <<flow, elapsed, captured_frame, image_list, count,
                 images_to_capture, exc, response, archive, uploads, emitted,
                 readsAfterStop, faceEver, timedOut>>
  /\ UNCHANGED <<dialogVars, is_running, stopAt>>
  /\ UNCHANGED <<openFailed, readFailed, lateRead, previewAfterTerminal>>

\* ------------------------------------------------------ FaceRegisterWorker.run
\* the names written by the zip loop: sample i is written as image_i.jpg
\* when cv2.imencode succeeds on it, and skipped otherwise (lines 115-118)
ZipEntries(list) ==
  LET idx == [i \in 1..Len(list) |-> i]
      kept == SelectSeq(idx, LAMBDA i : list[i])
  IN [k \in 1..Len(kept) |-> EntryName(kept[k] - 1)]

\* lines 51-61: the detector file, the camera, the empty list
Register_Start ==
  /\ flow = "register" /\ pc = "start"
  /\ \E cascadeExists \in BOOLEAN, opened \in BOOLEAN :
       IF ~cascadeExists
         THEN /\ exc' = CascadeMissingMsg
              /\ UNCHANGED openFailed
              /\ pc' = "except"
              /\ UNCHANGED cap
         ELSE IF ~opened
           THEN /\ cap' = "closed"
                /\ openFailed' = TRUE
                /\ exc' = CannotOpenMsg
                /\ pc' = "except"
           ELSE /\ cap' = "open"
                /\ UNCHANGED openFailed
                /\ pc' = "looptest"
                /\ UNCHANGED exc
  /\ image_list' = <<>>
  /\ count' = 0
  /\ UNCHANGED <<flow, elapsed, captured_frame, images_to_capture,
                 response, archive, uploads, emitted, finishedEmits,
                 readsAfterStop, faceEver, timedOut>>
  /\ UNCHANGED <<dialogVars, is_running, stopAt>>
  /\ UNCHANGED <<readFailed, lateRead, badRelease, previewAfterTerminal>>

\* line 63: the loop condition
Register_LoopTest ==
  /\ flow = "register" /\ pc = "looptest"
  /\ pc' = IF RegisterLoopCond(count, images_to_capture, is_running)
             THEN "body" ELSE "release"
  /\ UNCHANGED <<flow, cap, elapsed, captured_frame, image_list, count,
                 images_to_capture, exc, response, archive, uploads, emitted,
                 finishedEmits, readsAfterStop, faceEver, timedOut>>
  /\ UNCHANGED <<dialogVars, is_running, stopAt>>
  /\ UNCHANGED <<openFailed, readFailed, lateRead, badRelease, previewAfterTerminal>>

\* one pass of the loop that gives up (break) when no face is detected
Register_Body_BreakOnNoFace ==
  /\ flow = "register" /\ pc = "body"
  /\ \E ret \in BOOLEAN, face \in BOOLEAN, roiSize \in 0..1,
        encodable \in BOOLEAN, cvError \in BOOLEAN :
       /\ readsAfterStop' = IF is_running THEN readsAfterStop
                                          ELSE readsAfterStop + 1
       /\ ReadFrame(ret)
       /\ IF ~ret
            THEN /\ EmitPreview
                 /\ pc' = "release"
                 /\ UNCHANGED <<exc, image_list, count, faceEver>>
            ELSE IF cvError
              THEN /\ exc' = CvErrorMsg
                   /\ pc' = "except"
                   /\ UNCHANGED <<image_list, count, faceEver, previewAfterTerminal>>
              ELSE /\ EmitPreview
                   /\ pc' = IF face THEN "looptest" ELSE "release"
                   /\ faceEver' = (faceEver \/ face)
                   /\ UNCHANGED exc
                   /\ IF face /\ roiSize > 0
                        THEN /\ image_list' = Append(image_list, encodable)
                             /\ count' = count + 1
                        ELSE UNCHANGED <<image_list, count>>
  /\ UNCHANGED <<flow, cap, elapsed, captured_frame, images_to_capture,
                 response, archive, uploads, emitted, finishedEmits, timedOut>>
  /\ UNCHANGED <<dialogVars, is_running, stopAt>>
  /\ UNCHANGED <<openFailed, badRelease>>

\* lines 64-98: one pass of the loop. ret: the read succeeded; face: the
\* detector reported a face; roiSize: face_roi.size; encodable: whether
\* cv2.imencode will succeed on the crop; cvError: an OpenCV call raised.
Register_Body ==
  /\ flow = "register" /\ pc = "body"
  /\ \E ret \in BOOLEAN, face \in BOOLEAN, roiSize \in 0..1,
        encodable \in BOOLEAN, cvError \in BOOLEAN :
       /\ readsAfterStop' = IF is_running THEN readsAfterStop
                                          ELSE readsAfterStop + 1
       /\ ReadFrame(ret)
       /\ IF ~ret
            THEN /\ EmitPreview
                 /\ pc' = "release"
                 /\ UNCHANGED <<exc, image_list, count, faceEver>>
            ELSE IF cvError
              THEN /\ exc' = CvErrorMsg
                   /\ pc' = "except"
                   /\ UNCHANGED <<image_list, count, faceEver, previewAfterTerminal>>
              ELSE /\ EmitPreview
                   /\ pc' = "looptest"
                   /\ faceEver' = (faceEver \/ face)
                   /\ UNCHANGED exc
                   /\ IF face /\ roiSize > 0
                        THEN /\ image_list' = Append(image_list, encodable)
                             /\ count' = count + 1
                        ELSE UNCHANGED <<image_list, count>>
  /\ UNCHANGED <<flow, cap, elapsed, captured_frame, images_to_capture,
                 response, archive, uploads, emitted, finishedEmits, timedOut>>
  /\ UNCHANGED <<dialogVars, is_running, stopAt>>
  /\ UNCHANGED <<openFailed, badRelease>>

\* line 100: cap.release() after the loop
Register_Release ==
  /\ flow = "register" /\ pc = "release"
  /\ ReleaseCamera
  /\ pc' = "check"
  /\ UNCHANGED <<flow, elapsed, captured_frame, image_list, count,
                 images_to_capture, exc, response, archive, uploads, emitted,
                 finishedEmits, readsAfterStop, faceEver, timedOut>>
  /\ UNCHANGED <<dialogVars, is_running, stopAt>>
  /\ UNCHANGED <<openFailed, readFailed, lateRead, previewAfterTerminal>>

\* lines 102-107: the cancellation check and the sample-count check
Register_Check ==
  /\ flow = "register" /\ pc = "check"
  /\ IF ~is_running
       THEN /\ emitted' = Append(emitted, Signal("finished", FALSE, CaptureCancelMsg))
            /\ pc' = "finally"
            /\ UNCHANGED exc
       ELSE IF Len(image_list) < images_to_capture
         THEN /\ exc' = CaptureFailedMsg(Len(image_list))
              /\ pc' = "except"
              /\ UNCHANGED emitted
         ELSE /\ pc' = "zip"
              /\ UNCHANGED <<exc, emitted>>
  /\ UNCHANGED <<flow, cap, elapsed, captured_frame, image_list, count,
                 images_to_capture, response, archive, uploads,
                 finishedEmits, readsAfterStop, faceEver, timedOut>>
  /\ UNCHANGED <<dialogVars, is_running, stopAt>>
  /\ UNCHANGED <<openFailed, readFailed, lateRead, badRelease, previewAfterTerminal>>

\* lines 109-121: the in-memory zip
Register_Zip ==
  /\ flow = "register" /\ pc = "zip"
  /\ archive' = ZipEntries(image_list)
  /\ pc' = "post"
  /\ UNCHANGED <<flow, cap, elapsed, captured_frame, image_list, count,
                 images_to_capture, exc, response, uploads, emitted,
                 finishedEmits, readsAfterStop, faceEver, timedOut>>
  /\ EmitPreview
  /\ UNCHANGED <<dialogVars, is_running, stopAt>>
  /\ UNCHANGED <<openFailed, readFailed, lateRead, badRelease>>

\* lines 124-126: requests.post; it returns a response or raises
Register_Post ==
  /\ flow = "register" /\ pc = "post"
  /\ uploads' = uploads + 1
  /\ \E transportError \in BOOLEAN, r \in Responses :
       IF transportError
         THEN exc' = TransportMsg /\ pc' = "except" /\ UNCHANGED response
         ELSE response' = r /\ pc' = "respond" /\ UNCHANGED exc
  /\ UNCHANGED <<flow, cap, elapsed, captured_frame, image_list, count,
                 images_to_capture, archive, emitted, finishedEmits,
                 readsAfterStop, faceEver, timedOut>>
  /\ UNCHANGED <<dialogVars, is_running, stopAt>>
  /\ UNCHANGED <<openFailed, readFailed, lateRead, badRelease, previewAfterTerminal>>

\* lines 128-131: the verdict; response.json() is called on a non-200 only
Register_Respond ==
  /\ flow = "register" /\ pc = "respond"
  /\ IF RegisterAccepted(response)
       THEN /\ emitted' = Append(emitted, Signal("finished", TRUE, RegisteredMsg))
            /\ pc' = "finally"
            /\ UNCHANGED exc
       ELSE IF response.kind = "notjson"
         THEN exc' = JsonDecodeMsg /\ pc' = "except" /\ UNCHANGED emitted
         ELSE IF response.kind = "array"
           THEN exc' = NotADictMsg /\ pc' = "except" /\ UNCHANGED emitted
           ELSE /\ emitted' = Append(emitted, Signal("finished", FALSE,
                     ServerErrorText(GetDefault(response, "message", UnknownError))))
                /\ pc' = "finally"
                /\ UNCHANGED exc
  /\ UNCHANGED <<flow, cap, elapsed, captured_frame, image_list, count,
                 images_to_capture, response, archive, uploads,
                 finishedEmits, readsAfterStop, faceEver, timedOut>>
  /\ UNCHANGED <<dialogVars, is_running, stopAt>>
  /\ UNCHANGED <<openFailed, readFailed, lateRead, badRelease, previewAfterTerminal>>

\* lines 133-134: except Exception as e
Register_Except ==
  /\ flow = "register" /\ pc = "except"
  /\ emitted' = Append(emitted, Signal("finished", FALSE, ErrorText(exc)))
  /\ pc' = "finally"
  /\ UNCHANGED <<flow, cap, elapsed, captured_frame, image_list, count,
                 images_to_capture, exc, response, archive, uploads,
                 finishedEmits, readsAfterStop, faceEver, timedOut>>
  /\ UNCHANGED <<dialogVars, is_running, stopAt>>
  /\ UNCHANGED <<openFailed, readFailed, lateRead, badRelease, previewAfterTerminal>>

\* lines 135-137: finally
Register_Finally ==
  /\ flow = "register" /\ pc = "finally"
  /\ IF cap = "open" THEN ReleaseCamera ELSE UNCHANGED <<cap, badRelease>>
  /\ pc' = "done"
  /\ UNCHANGED <<flow, elapsed, captured_frame, image_list, count,
                 images_to_capture, exc, response, archive, uploads, emitted,
                 finishedEmits, readsAfterStop, faceEver, timedOut>>
  /\ UNCHANGED <<dialogVars, is_running, stopAt>>
  /\ UNCHANGED <<openFailed, readFailed, lateRead, previewAfterTerminal>>

\* ------------------------------------------------------ the dialogs
Box(kind, title, text) == [kind |-> kind, title |-> title, text |-> text]

\* closeEvent up to thread.wait(): worker.stop(), thread.quit(); the GUI
\* thread then blocks in thread.wait()
CloseEvent ==
  /\ dlg = "shown"
  /\ is_running' = FALSE
  /\ stopAt' = pc
  /\ dlg' = "closing"
  /\ UNCHANGED <<workerVars, nDelivered, boxes, surfaced>>

\* closeEvent without thread.wait(): it goes on while run() is still running
CloseJoined_NoWait ==
  /\ dlg = "closing"
  /\ dlg' = "closed"
  /\ surfaced' = IF flow = "register"
                   THEN Append(surfaced, Signal("registration_complete", TRUE, ""))
                   ELSE surfaced
  /\ UNCHANGED <<workerVars, nDelivered, boxes, is_running, stopAt>>

\* thread.wait() returns once run() has returned; the rest of closeEvent
CloseJoined ==
  /\ dlg = "closing"
  /\ pc = "done"
  /\ dlg' = "closed"
  /\ surfaced' = IF flow = "register"
                   THEN Append(surfaced, Signal("registration_complete", TRUE, ""))
                   ELSE surfaced
  /\ UNCHANGED <<workerVars, nDelivered, boxes, is_running, stopAt>>

\* The GUI thread delivers the next queued terminal signal of the login
\* worker: on_login_success or on_login_failed.
Deliver_Login ==
  /\ flow = "login"
  /\ dlg # "closing"
  /\ nDelivered < Len(emitted)
  /\ LET e == emitted[nDelivered + 1] IN
       IF e.sig = "login_success"
         THEN /\ surfaced' = Append(surfaced, Signal("login_success", TRUE, e.arg))
              /\ UNCHANGED boxes
         ELSE /\ boxes' = Append(boxes, Box("warning", "Login Failed", e.arg))
              /\ UNCHANGED surfaced
  /\ nDelivered' = nDelivered + 1
  /\ dlg' = "closed"
  /\ UNCHANGED <<workerVars, is_running, stopAt>>

\* The GUI thread delivers the queued finished(success, message) of the
\* enrollment worker: on_finished.
Deliver_Register ==
  /\ flow = "register"
  /\ dlg # "closing"
  /\ nDelivered < Len(emitted)
  /\ LET e == emitted[nDelivered + 1] IN
       boxes' = Append(boxes, IF e.ok THEN Box("information", "Success", e.arg)
                                      ELSE Box("warning", "Failed", e.arg))
  /\ surfaced' = Append(surfaced, Signal("registration_complete", TRUE, ""))
  /\ nDelivered' = nDelivered + 1
  /\ dlg' = "closed"
  /\ UNCHANGED <<workerVars, is_running, stopAt>>

\* one step of the worker thread
WorkerNext ==
  \/ Login_Start \/ Login_LoopTest \/ Login_Body \/ Login_Release
  \/ Login_Check \/ Login_Encode \/ Login_Post \/ Login_Respond
  \/ Login_Except \/ Login_Finally
  \/ Register_Start \/ Register_LoopTest \/ Register_Body \/ Register_Release
  \/ Register_Check \/ Register_Zip \/ Register_Post \/ Register_Respond
  \/ Register_Except \/ Register_Finally

\* one step of the GUI thread
DialogNext ==
  \/ CloseEvent \/ CloseJoined \/ Deliver_Login \/ Deliver_Register

Next == WorkerNext \/ DialogNext

Spec == Init /\ [][Next]_vars

\* The worker thread is scheduled and its library calls return (cap.read,
\* requests.post with its timeout): run() keeps taking steps until it returns.
FairSpec == Spec /\ WF_vars(WorkerNext)

\* ====================================================== properties
Terminated == pc = "done"

\* positions of run() at which a stop() is still seen by the post-loop check
PreCheckPcs == {"start", "looptest", "body", "release", "check"}
\* positions of run() after the post-loop check, before the verdict
UploadPcs == {"encode", "zip", "post", "respond"}

CancelSignal ==
  IF flow = "login" THEN Signal("login_failed", FALSE, LoginCancelMsg)
                    ELSE Signal("finished", FALSE, CaptureCancelMsg)

TerminalSigs ==
  IF flow = "login" THEN {"login_success", "login_failed"} ELSE {"finished"}

\* C1: every session produces exactly one terminal outcome, exactly once:
\* at no time has the worker emitted more than one terminal signal, and when
\* run() has returned it has emitted exactly one (login_success or
\* login_failed for login, finished(success, message) for enrollment).
C1_ExactlyOneTerminal ==
  /\ Len(emitted) <= 1
  /\ \A i \in DOMAIN emitted : emitted[i].sig \in TerminalSigs
  /\ Terminated => Len(emitted) = 1

\* a login session cancelled in the loop has returned: the path with the
\* explicit emit and return before the finally block
C1_Witness ==
  /\ Terminated /\ flow = "login" /\ stopAt = "body"
  /\ emitted = <<Signal("login_failed", FALSE, LoginCancelMsg)>>

C2_Safety ==
  /\ readsAfterStop <= 1
  /\ (pc \in {"finally", "done"} /\ stopAt \in PreCheckPcs /\ exc = "")
       => /\ emitted = <<CancelSignal>>
          /\ cap = "closed"
          /\ uploads = 0
  /\ (Terminated /\ stopAt \in UploadPcs) => emitted # <<CancelSignal>>

C3_CancelIsSilent ==
  \A i \in DOMAIN boxes : boxes[i].text \notin {LoginCancelMsg, CaptureCancelMsg}

\* C4: an enrollment session never holds more than images_to_capture
\* samples, its counter equals the length of the list, and the zip, the
\* upload and the success verdict are reached only with exactly
\* images_to_capture samples.
C4_ExactlyNSamples ==
  flow = "register" =>
    /\ Len(image_list) <= images_to_capture
    /\ count = Len(image_list)
    /\ (pc \in UploadPcs \/ uploads > 0) => Len(image_list) = images_to_capture
    /\ (\E i \in DOMAIN emitted : emitted[i].ok) => Len(image_list) = images_to_capture

C4_Witness ==
  /\ flow = "register" /\ Terminated
  /\ images_to_capture >= 2
  /\ Len(image_list) = images_to_capture
  /\ emitted = <<Signal("finished", TRUE, RegisteredMsg)>>

\* C5 as stated: the archive of a session that reaches the upload holds
\* exactly the entries image_0.jpg .. image_{N-1}.jpg.
C5_ArchiveHasNEntries ==
  (flow = "register" /\ uploads > 0)
    => archive = [i \in 1..images_to_capture |-> EntryName(i - 1)]

\* a login session without face and without stop() makes no upload, is never
\* in its loop later than the timeout plus one frame period, and ends failed
C6_Safety ==
  (flow = "login" /\ ~faceEver /\ stopAt \in {"none", "done"})
    => /\ uploads = 0
       /\ elapsed <= TIMEOUT + MaxFramePeriod
       /\ Terminated => /\ Len(emitted) = 1
                        /\ emitted[1].sig = "login_failed"

\* C6: a login session in which no face is detected and no stop() is called
\* makes no upload, its loop has ended by timeout plus one frame period, its
\* outcome is a failure, and the session terminates.
C6_NoFaceFailsInTime ==
  /\ []C6_Safety
  /\ (flow = "login") ~> Terminated

\* the loop ran up to the timeout, the last pass started just before it
C6_Witness ==
  /\ flow = "login" /\ Terminated /\ ~faceEver /\ stopAt = "none"
  /\ timedOut /\ elapsed > TIMEOUT
  /\ emitted[1].sig = "login_failed"

\* the login loop timed out with no frame captured and the post-loop check
\* did not see a cancellation
TimedOutNoFace ==
  /\ flow = "login" /\ Terminated
  /\ timedOut /\ captured_frame = "None"
  /\ stopAt \notin PreCheckPcs

\* C7 as stated: the reason delivered for a timeout with no face is exactly
\* "No face detected. Please try again.".
C7_Original ==
  TimedOutNoFace => emitted = <<Signal("login_failed", FALSE, NoFaceMsg)>>

\* C7 as amended: the reason delivered is exactly
\* "Error: No face detected. Please try again.", in the signal and in the
\* warning box of the dialog.
C7_ErrorPrefixedReason ==
  TimedOutNoFace =>
    /\ emitted = <<Signal("login_failed", FALSE, "Error: No face detected. Please try again.")>>
    /\ nDelivered = 1 =>
         boxes = <<Box("warning", "Login Failed", "Error: No face detected. Please try again.")>>

C7_Witness ==
  /\ TimedOutNoFace /\ nDelivered = 1 /\ Len(boxes) = 1

\* the login worker has interpreted an HTTP 200 with a JSON object body
Login200 ==
  /\ flow = "login" /\ pc \in {"finally", "done"}
  /\ response.status = 200 /\ response.kind = "object"

\* C8: for a login upload answered with HTTP 200, {success:true, username:u}
\* yields login_success(u), {success:false, message:m} yields login_failed(m)
\* and a non-accepting body without "message" yields
\* login_failed("Unknown error").
C8_Login200Verdict ==
  Login200 =>
    /\ (response.success = "true" /\ response.username # Absent)
         => emitted = <<Signal("login_success", TRUE, response.username)>>
    /\ (response.success = "false" /\ response.message # Absent)
         => emitted = <<Signal("login_failed", FALSE, response.message)>>
    /\ (response.success # "true" /\ response.message = Absent)
         => emitted = <<Signal("login_failed", FALSE, "Unknown error")>>

C8_Witness ==
  /\ Login200 /\ response.success = "false" /\ response.message = Absent
  /\ emitted = <<Signal("login_failed", FALSE, "Unknown error")>>

\* C9 as stated: login_success is emitted only for an HTTP 200 whose body is
\* a JSON object with a truthy "success" and a "username" field.
C9_SuccessNeedsUsername ==
  \A i \in DOMAIN emitted :
    emitted[i].sig = "login_success" =>
      /\ response.status = 200
      /\ response.kind = "object"
      /\ response.success = "true"
      /\ response.username # Absent

\* the worker has interpreted a response that is not an acceptance
Rejected ==
  /\ pc \in {"finally", "done"}
  /\ response # NoResponse
  /\ IF flow = "login"
       THEN ~(response.status = 200 /\ response.kind = "object"
              /\ response.success = "true")
       ELSE response.status # 200

FailSig == IF flow = "login" THEN "login_failed" ELSE "finished"

\* the server's "message" field, "Unknown error" when there is none
MessageOrUnknown ==
  IF response.kind = "object" /\ response.message # Absent
    THEN response.message ELSE "Unknown error"

\* C10 as stated: every response that is not an acceptance is surfaced with
\* exactly the server's "message", or "Unknown error" when the field is
\* absent or the body is not JSON.
C10_Original ==
  Rejected => emitted = <<Signal(FailSig, FALSE, MessageOrUnknown)>>

\* C10 as amended: a response that is not an acceptance is surfaced as a
\* failure; with a JSON object body the login worker reports exactly the
\* "message" field or "Unknown error", the enrollment worker reports that
\* text prefixed with "Server error: "; with any other body the reason is
\* "Error: " followed by the text of the exception raised by the parse.
C10_RejectionReason ==
  Rejected =>
    /\ Len(emitted) = 1
    /\ emitted[1].sig = FailSig
    /\ ~emitted[1].ok
    /\ emitted[1].arg =
         CASE response.kind = "notjson" -> "Error: " \o JsonDecodeMsg
           [] response.kind = "array" -> "Error: " \o NotADictMsg
           [] OTHER -> IF flow = "login" THEN MessageOrUnknown
                       ELSE "Server error: " \o MessageOrUnknown

C10_Witness ==
  /\ Rejected /\ flow = "register" /\ Terminated
  /\ response.kind = "object" /\ response.message = "no match"
  /\ emitted = <<Signal("finished", FALSE, "Server error: no match")>>

\* C11: the camera is released on every exit path: when run() has returned
\* the camera is not open, whichever way the session ended, and
\* cap.release() is never called on a camera that was not opened.
C11_CameraReleased ==
  /\ Terminated => cap # "open"
  /\ ~badRelease

\* an OpenCV call raised inside the loop, with the camera open, and the
\* finally block released it
C11_Witness ==
  /\ Terminated /\ exc = CvErrorMsg /\ cap = "closed" /\ ~openFailed

\* closeEvent has run to its event.accept()
CloseEventDone == stopAt # "none" /\ dlg = "closed"

\* closeEvent has called stop() before it waits, and it reaches
\* event.accept() only when run() has returned and the camera is not open
C12_Safety ==
  /\ dlg = "closing" => ~is_running
  /\ CloseEventDone => (Terminated /\ cap # "open" /\ ~is_running)

\* C12: closing the dialog while the session runs requests cancellation and
\* then blocks until the worker has terminated: teardown never completes
\* while run() is still running or the camera is open, and the worker
\* terminates, so that the wait returns.
C12_CloseWaitsForWorker ==
  /\ []C12_Safety
  /\ (dlg = "closing") ~> Terminated

\* the dialog was closed during the HTTP upload and closeEvent has completed
C12_Witness ==
  /\ CloseEventDone /\ stopAt = "post" /\ Terminated /\ uploads = 1

\* the capture completed: a face frame for login, images_to_capture samples
\* for enrollment
CaptureCompleted ==
  IF flow = "login" THEN captured_frame = "frame"
                    ELSE Len(image_list) = images_to_capture

\* the post-loop check saw the cancellation
CancelObserved == stopAt \in PreCheckPcs

\* C13 as stated: at most one POST is made; a session whose capture
\* completed without cancellation being observed makes exactly one, every
\* other session makes none.
C13_Original ==
  /\ uploads <= 1
  /\ Terminated => (uploads = 1 <=> (CaptureCompleted /\ ~CancelObserved))

\* C13 as amended: at most one POST is made; exactly one is made when the
\* capture completed, no cancellation was observed and, for login, the
\* captured frame was encoded (cv2.imencode succeeded); none is made
\* otherwise.
C13_AtMostOneUpload ==
  /\ uploads <= 1
  /\ Terminated =>
       (uploads = 1 <=> (/\ CaptureCompleted
                         /\ ~CancelObserved
                         /\ exc # EncodeFailMsg))
  /\ (Terminated /\ (timedOut \/ openFailed \/ readFailed
                      \/ exc = CascadeMissingMsg) /\ ~CaptureCompleted)
       => uploads = 0

\* an enrollment session with all samples captured made its one upload, and
\* the server rejected it without a second attempt
C13_Witness ==
  /\ Terminated /\ flow = "register" /\ CaptureCompleted /\ uploads = 1
  /\ response.status = 500

\* the terminal signal is one failure, and not the cancellation
FailureOutcome ==
  /\ Len(emitted) = 1
  /\ emitted[1].sig = FailSig
  /\ ~emitted[1].ok
  /\ emitted[1] # CancelSignal

\* C14: a camera that cannot be opened and a frame read that fails are
\* fatal and not retried: no frame is read after either, no upload is made,
\* and unless a cancellation is observed the outcome is a failure, in login
\* and in enrollment mode.
C14_DeviceErrorFatal ==
  /\ ~lateRead
  /\ (openFailed \/ readFailed) => uploads = 0
  /\ (Terminated /\ (openFailed \/ readFailed) /\ ~CancelObserved)
       => FailureOutcome

\* an enrollment session that had captured a sample lost the camera
C14_Witness ==
  /\ Terminated /\ flow = "register" /\ readFailed /\ stopAt = "none"
  /\ Len(image_list) = 1 /\ images_to_capture > 1
  /\ emitted = <<Signal("finished", FALSE, "Error: Capture failed. Only got 1 images.")>>

\* the enrollment worker is in its acquisition loop
InRegisterLoop == flow = "register" /\ pc \in {"looptest", "body"}

\* the camera was opened, every read so far succeeded, no face was detected,
\* no OpenCV call raised and stop() was not called
NothingHappened ==
  /\ flow = "register" /\ cap # "unbound" /\ ~openFailed
  /\ ~readFailed /\ ~faceEver /\ exc = "" /\ stopAt = "none"

\* the statement after the enrollment loop (cap.release()) is reached only
\* with count at the target, with stop() called, or after a failed read;
\* and a pass without a face leaves the worker where it was
C15_LoopExits ==
  [][ /\ (InRegisterLoop /\ pc' = "release")
           => (count = images_to_capture \/ ~is_running \/ readFailed')
      /\ (InRegisterLoop /\ pc = "body" /\ pc' = "looptest" /\ ~faceEver')
           => UNCHANGED <<cap, elapsed, image_list, count, exc, emitted>>
    ]_vars

\* C15: the enrollment session has no timeout: its loop is left only when
\* count reaches the target, a cancellation is observed or a read fails, and
\* as long as reads succeed, no face is detected and stop() is not called
\* the worker is still in its loop and has produced no terminal outcome.
C15_NoEnrollmentTimeout ==
  /\ C15_LoopExits
  /\ [](NothingHappened => (InRegisterLoop /\ emitted = <<>> /\ ~Terminated))

\* the enrollment loop is running a pass with nothing captured so far
C15_Witness ==
  /\ NothingHappened /\ pc = "body" /\ count = 0 /\ cap = "open"

\* C16: the terminal event is the last event of a session: no preview,
\* status or progress signal is emitted after the terminal signal; and the
\* worker never waits on the controller: until run() has returned it can
\* take its next step whatever the dialog is doing, also while the GUI
\* thread is blocked in closeEvent.
C16_TerminalEventLast ==
  /\ ~previewAfterTerminal
  /\ ~Terminated => ENABLED WorkerNext

\* the worker ran through the upload to its end while the GUI thread was
\* blocked in thread.wait(), its terminal signal still undelivered
C16_Witness ==
  /\ Terminated /\ dlg = "closing" /\ stopAt = "encode"
  /\ uploads = 1 /\ Len(emitted) = 1 /\ nDelivered = 0

\* C17 as stated: FaceLoginWorker emits its cleanup signal finished exactly
\* once per run, on every path.
C17_FinishedOnce ==
  flow = "login" =>
    /\ finishedEmits <= 1
    /\ Terminated => finishedEmits = 1

\* the registration_complete signals the dialog has emitted
RegistrationCompletes ==
  SelectSeq(surfaced, LAMBDA e : e.sig = "registration_complete")

\* the capture session is over for the dialog: run() has returned, its
\* terminal signal is delivered and the dialog is closed
SessionOver ==
  /\ Terminated /\ dlg = "closed" /\ nDelivered = Len(emitted)

\* C18 as stated: FaceCaptureDialog emits registration_complete exactly once
\* per capture session, whichever way the session ends: the worker finished
\* with the dialog open, or the dialog was closed while the worker was
\* running.
C18_RegistrationCompleteOnce ==
  (flow = "register" /\ stopAt # "done") =>
    /\ Len(RegistrationCompletes) <= 1
    /\ SessionOver => Len(RegistrationCompletes) = 1

====
